---------------------------- MODULE Spec2Model ----------------------------
(***************************************************************************)
(* A model of src/game.js: the two-robot artifact game.                    *)
(*                                                                         *)
(* Numbers.  The source computes with IEEE doubles.  Here every length and *)
(* velocity is a fixed-point integer counting 1/Unit of a field unit, and  *)
(* every product with a fractional factor is truncated toward zero.  A     *)
(* heading is kept as its (cos, sin) pair scaled by DirUnit instead of the *)
(* angle in radians, because the source only ever takes cos and sin of it. *)
(*                                                                         *)
(* Source text.  update() (lines 293-362) lacks the brace that closes the  *)
(* block opened on line 302; the indentation shows that the block ends     *)
(* after line 308 and the model reads it that way.  The identifier         *)
(* gamestate on line 302 is declared nowhere, so evaluating the condition  *)
(* throws a ReferenceError (GamestateDeclared).                            *)
(***************************************************************************)
EXTENDS Integers, Sequences, FiniteSets, TLC

\* ------------------------------------------------------------ constants
FIELD_WIDTH == 2000
FIELD_HEIGHT == 1400
ROBOT_SIZE == 40
ARTIFACT_RADIUS == 8
GOAL_SIZE == 120
MAX_INVENTORY == 3

MatchSeconds == 120
ActionCooldown == 15
IntakeMargin == 20
ShootOffset == 10
ShootSpeed == 15
PushSpeed == 2
NumPurple == 24
NumGreen == 12
PurplePoints == 5
GreenPoints == 10
PatternBonus == 20
HistoryCap == 3
ShootParticles == 5
ScoreParticles == 20
ParticleLife == 30
RedStartX == 100
GoalInset == 50
SpawnMargin == 100

\* ------------------------------------------------------------ bounds
\* Fixed-point resolution: lengths are counted in 1/Unit of a field unit.
Unit == 10
\* The number of artifacts whose random spawn position is explored; the
\* others spawn on a quiet raster away from goals and robots.
NumProbes == 3
\* Frames explored after startGame.
MaxFrames == 2

DirUnit == 10 * 10 * 10
NormPrec == 10 * 10

Types == {"purple", "green"}
RobotIds == {"red", "blue"}
RobotOrder == <<"red", "blue">>
Patterns == {<<a, b, c>> : a \in Types, b \in Types, c \in Types}

\* ------------------------------------------------------------ Vector2
Vec(x, y) == [x |-> x, y |-> y]
Zero == Vec(0, 0)
VAdd(a, b) == Vec(a.x + b.x, a.y + b.y)
VSub(a, b) == Vec(a.x - b.x, a.y - b.y)
Abs(n) == IF n < 0 THEN -n ELSE n
\* Division truncating toward zero, as a double product cut to the grid.
Quot(a, b) == IF a >= 0 THEN a \div b ELSE -((-a) \div b)
\* v scaled by num/den.
VScale(v, num, den) == Vec(Quot(v.x * num, den), Quot(v.y * num, den))

RECURSIVE SqrtBetween(_, _, _)
SqrtBetween(n, lo, hi) ==
    IF lo >= hi THEN lo
    ELSE LET mid == (lo + hi + 1) \div 2
         IN IF mid * mid <= n THEN SqrtBetween(n, mid, hi)
            ELSE SqrtBetween(n, lo, mid - 1)
\* floor(sqrt(n)) for 0 <= n < 2^31
Isqrt(n) == SqrtBetween(n, 0, 46340)

\* mag() of v, in 1/NormPrec of v's own unit.
Mag(v) == Isqrt((v.x * NormPrec) * (v.x * NormPrec) + (v.y * NormPrec) * (v.y * NormPrec))
\* normalize().mult(len): the zero vector stays zero.
NormalizeMult(v, len) ==
    LET m == Mag(v)
    IN IF m = 0 THEN Zero
       ELSE Vec(Quot(v.x * NormPrec * len, m), Quot(v.y * NormPrec * len, m))
\* a.dist(b) < r, with r in field units.
DistLess(a, b, r) ==
    LET dx == Abs(a.x - b.x)
        dy == Abs(a.y - b.y)
        rr == r * Unit
    IN dx < rr /\ dy < rr /\ dx * dx + dy * dy < rr * rr

Min(a, b) == IF a < b THEN a ELSE b
Max(a, b) == IF a > b THEN a ELSE b


RobotFrictionPct == 92
ArtifactFrictionPct == 98

\* ------------------------------------------------------------ state
VARIABLES
    running,        \* gameState.running
    timeLeft,       \* gameState.timeLeft
    secondElapsed,  \* Date.now() - gameState.lastTime >= 1000
    robots,         \* gameState.robots, by id: pos, vel, angle, inventory, cooldown
    artifacts,      \* gameState.artifacts: pos, vel, type, held, holder, scored
    particles,      \* gameState.particles: color, life
    targetPattern,  \* gameState.targetPattern
    redScore,       \* gameState.redScore
    blueScore,      \* gameState.blueScore
    redHistory,     \* gameState.redHistory
    blueHistory,    \* gameState.blueHistory
    msgText,        \* the text of the #game-message banner
    msgHidden,      \* whether the banner carries the class hidden
    timers,         \* pending setTimeout callbacks of checkPattern
    loopAlive,      \* a requestAnimationFrame callback is scheduled
    frames,         \* frames run since startGame (bounds the exploration)
    scoreLog,       \* history variable: the scoreArtifact calls since startGame
    actLog,         \* history variable: the action() calls since startGame
    lastOp          \* history variable: what the last step did

vars == <<running, timeLeft, secondElapsed, robots, artifacts, particles,
          targetPattern, redScore, blueScore, redHistory, blueHistory,
          msgText, msgHidden, timers, loopAlive, frames, scoreLog, actLog, lastOp>>

\* The program state as one record, the form the operations work on.  threw
\* is set when the running handler has thrown; frame is the number of the
\* frame being run, which stamps the entries of actLog.
GS == [running |-> running, timeLeft |-> timeLeft, secondElapsed |-> secondElapsed,
       robots |-> robots, artifacts |-> artifacts, particles |-> particles,
       targetPattern |-> targetPattern, redScore |-> redScore,
       blueScore |-> blueScore, redHistory |-> redHistory,
       blueHistory |-> blueHistory, msgText |-> msgText, msgHidden |-> msgHidden,
       timers |-> timers, scoreLog |-> scoreLog, actLog |-> actLog,
       frame |-> frames + 1, threw |-> FALSE]

Commit(g) ==
    /\ running' = g.running
    /\ timeLeft' = g.timeLeft
    /\ secondElapsed' = g.secondElapsed
    /\ robots' = g.robots
    /\ artifacts' = g.artifacts
    /\ particles' = g.particles
    /\ targetPattern' = g.targetPattern
    /\ redScore' = g.redScore
    /\ blueScore' = g.blueScore
    /\ redHistory' = g.redHistory
    /\ blueHistory' = g.blueHistory
    /\ msgText' = g.msgText
    /\ msgHidden' = g.msgHidden
    /\ timers' = g.timers
    /\ scoreLog' = g.scoreLog
    /\ actLog' = g.actLog

\* ------------------------------------------------------------ entities
\* new Robot(id, x, y, ...): the heading is 0 for red and PI for blue.
NewRobot(id, x, y) ==
    [pos |-> Vec(x * Unit, y * Unit), vel |-> Zero,
     angle |-> IF id = "red" THEN Vec(DirUnit, 0) ELSE Vec(-DirUnit, 0),
     inventory |-> <<>>, cooldown |-> 0]

\* new Artifact(x, y, type), at a position on the fixed-point grid.
NewArtifact(p, type) ==
    [pos |-> p, vel |-> Zero, type |-> type, held |-> FALSE,
     holder |-> "none", scored |-> FALSE]

Controls(id) ==
    IF id = "red"
    THEN [up |-> "KeyW", down |-> "KeyS", left |-> "KeyA", right |-> "KeyD", action |-> "KeyF"]
    ELSE [up |-> "ArrowUp", down |-> "ArrowDown", left |-> "ArrowLeft",
          right |-> "ArrowRight", action |-> "KeyM"]

\* spawnParticles(x, y, color, count)
SpawnParticles(g, color, count) ==
    [g EXCEPT !.particles = @ \o [k \in 1..count |-> [color |-> color, life |-> ParticleLife]]]

\* ------------------------------------------------------------ Robot.action
\* Whether artifact i can be taken in by the robot at position p.
InIntakeRange(g, p, i) ==
    /\ ~g.artifacts[i].held
    /\ ~g.artifacts[i].scored
    /\ DistLess(p, g.artifacts[i].pos, ROBOT_SIZE + IntakeMargin)

\* The first artifact of the collection the robot can take in, 0 if none.
FirstInRange(g, id) ==
    LET c == {i \in 1..Len(g.artifacts) : InIntakeRange(g, g.robots[id].pos, i)}
    IN IF c = {} THEN 0 ELSE CHOOSE i \in c : \A j \in c : i <= j

HasRoom_Always(g, id) == TRUE

\* The inventory still has room: the intake is tried.
HasRoom(g, id) == Len(g.robots[id].inventory) < MAX_INVENTORY

Capture_KeepsFree(g, id, i) == [g EXCEPT !.robots[id].inventory = Append(@, i)]

\* The intake of artifact i (lines 127-129).
Capture(g, id, i) ==
    [g EXCEPT !.artifacts[i].held = TRUE,
              !.artifacts[i].holder = id,
              !.robots[id].inventory = Append(@, i)]

ShootIndex_Newest(inv) == Len(inv)

\* The entry of the inventory that a shoot releases: shift() takes the first.
ShootIndex(inv) == 1

Shoot(g, id) ==
    LET r == g.robots[id]
        k == ShootIndex(r.inventory)
        i == r.inventory[k]
        dir == r.angle
        rest == [j \in 1..(Len(r.inventory) - 1) |->
                    IF j < k THEN r.inventory[j] ELSE r.inventory[j + 1]]
        g1 == [g EXCEPT
                 !.robots[id].inventory = rest,
                 !.artifacts[i].held = FALSE,
                 !.artifacts[i].holder = "none",
                 !.artifacts[i].pos = VAdd(r.pos, VScale(dir, (ROBOT_SIZE + ShootOffset) * Unit, DirUnit)),
                 !.artifacts[i].vel = VScale(dir, ShootSpeed * Unit, DirUnit),
                 !.robots[id].vel = VSub(r.vel, VScale(dir, Unit \div 5, DirUnit))]
    IN SpawnParticles(g1, "white", ShootParticles)

\* What one call of action() did, for actLog.
ActEntry(g, id, kind, i) == [robot |-> id, kind |-> kind, idx |-> i, frame |-> g.frame]

RobotAction_ShootFirst(g, id) ==
    LET inv == g.robots[id].inventory
        i == IF HasRoom(g, id) THEN FirstInRange(g, id) ELSE 0
    IN IF Len(inv) > 0
       THEN [Shoot(g, id) EXCEPT
                !.actLog = Append(@, ActEntry(g, id, "shoot", inv[ShootIndex(inv)]))]
       ELSE IF i # 0
       THEN [Capture(g, id, i) EXCEPT !.actLog = Append(@, ActEntry(g, id, "capture", i))]
       ELSE [g EXCEPT !.actLog = Append(@, ActEntry(g, id, "none", 0))]

RobotAction_EmptyRecoils(g, id) ==
    LET inv == g.robots[id].inventory
        i == IF HasRoom(g, id) THEN FirstInRange(g, id) ELSE 0
    IN IF i # 0
       THEN [Capture(g, id, i) EXCEPT !.actLog = Append(@, ActEntry(g, id, "capture", i))]
       ELSE IF Len(inv) > 0
       THEN [Shoot(g, id) EXCEPT
                !.actLog = Append(@, ActEntry(g, id, "shoot", inv[ShootIndex(inv)]))]
       ELSE [g EXCEPT !.robots[id].vel = VSub(@, VScale(g.robots[id].angle, Unit \div 5, DirUnit)),
                      !.actLog = Append(@, ActEntry(g, id, "none", 0))]

\* action() (lines 121-150)
RobotAction(g, id) ==
    LET inv == g.robots[id].inventory
        i == IF HasRoom(g, id) THEN FirstInRange(g, id) ELSE 0
    IN IF i # 0
       THEN [Capture(g, id, i) EXCEPT !.actLog = Append(@, ActEntry(g, id, "capture", i))]
       ELSE IF Len(inv) > 0
       THEN [Shoot(g, id) EXCEPT
                !.actLog = Append(@, ActEntry(g, id, "shoot", inv[ShootIndex(inv)]))]
       ELSE [g EXCEPT !.actLog = Append(@, ActEntry(g, id, "none", 0))]

\* ------------------------------------------------------------ Robot.update
Pressed(input, key) == key \in input

MoveVec(input, id) ==
    LET c == Controls(id)
        one(k) == IF Pressed(input, k) THEN 1 ELSE 0
    IN Vec(one(c.right) - one(c.left), one(c.down) - one(c.up))

\* atan2(vel.y, vel.x) as a direction; atan2(0, 0) is 0.
Heading(v) == IF v = Zero THEN Vec(DirUnit, 0) ELSE NormalizeMult(v, DirUnit)

\* The lower bound of the position clamp, in field units.
ClampMargin == ROBOT_SIZE

Clamp_Off(v, size) == v

\* Math.max(ROBOT_SIZE, Math.min(size - ROBOT_SIZE, v)) (lines 110-111).
Clamp(v, size) == Max(ClampMargin * Unit, Min((size - ClampMargin) * Unit, v))

\* Movement, friction, integration and the clamp (lines 92-111).
RobotMove(r, input, id) ==
    LET mv == MoveVec(input, id)
        moving == mv # Zero
        v1 == IF moving THEN VAdd(r.vel, NormalizeMult(mv, Unit \div 2)) ELSE r.vel
        a1 == IF moving THEN Heading(v1) ELSE r.angle
        v2 == VScale(v1, RobotFrictionPct, 100)
        p1 == VAdd(r.pos, v2)
    IN [r EXCEPT !.vel = v2, !.angle = a1,
                 !.pos = Vec(Clamp(p1.x, FIELD_WIDTH), Clamp(p1.y, FIELD_HEIGHT))]

ActionFires_IgnoresCooldown(r, input, id) == Pressed(input, Controls(id).action)

\* Whether update() calls action() (line 114).
ActionFires(r, input, id) == Pressed(input, Controls(id).action) /\ r.cooldown <= 0

RobotUpdate(g, id, input) ==
    LET g1 == [g EXCEPT !.robots[id] = RobotMove(@, input, id)]
        fires == ActionFires(g1.robots[id], input, id)
        g2 == IF fires
              THEN [RobotAction(g1, id) EXCEPT !.robots[id].cooldown = ActionCooldown]
              ELSE g1
    IN [g2 EXCEPT !.robots[id].cooldown = IF @ > 0 THEN @ - 1 ELSE @]


\* ------------------------------------------------------------ scoring
History(g, team) == IF team = "red" THEN g.redHistory ELSE g.blueHistory
Score(g, team) == IF team = "red" THEN g.redScore ELSE g.blueScore
Other(team) == IF team = "red" THEN "blue" ELSE "red"

AddScore_ToRed(g, team, n) == [g EXCEPT !.redScore = @ + n]

\* gameState[team + 'Score'] += n
AddScore(g, team, n) ==
    IF team = "red" THEN [g EXCEPT !.redScore = @ + n]
    ELSE [g EXCEPT !.blueScore = @ + n]

\* generatePattern(): p is the outcome of the three Math.random() draws.
GeneratePattern(g, p) == [g EXCEPT !.targetPattern = p]

PatternMatches_FirstOnly(history, target) == 1 <= Len(target) /\ history[1] = target[1]

\* The comparison loop of checkPattern (lines 391-394).
PatternMatches(history, target) ==
    \A i \in 1..HistoryCap : i <= Len(target) /\ history[i] = target[i]

ClearHistories_RedOnly(g) == [g EXCEPT !.redHistory = <<>>]

\* What a pattern match does to the two histories (lines 418-419).
ClearHistories(g) == [g EXCEPT !.redHistory = <<>>, !.blueHistory = <<>>]

\* The banner text of a pattern bonus (line 409).
MatchedText(team) ==
    IF team = "red" THEN "RED MATCHED PATTERN (+30)!" ELSE "BLUE MATCHED PATTERN (+30)!"

\* checkPattern(team); p is the pattern generatePattern() draws if it runs.
CheckPattern(g, team, p) ==
    LET history == History(g, team)
    IN IF Len(history) < HistoryCap THEN g
       ELSE IF ~PatternMatches(history, g.targetPattern) THEN g
       ELSE LET g1 == AddScore(g, team, PatternBonus)
                g2 == [g1 EXCEPT !.msgText = MatchedText(team),
                                 !.msgHidden = FALSE,
                                 !.timers = @ + 1,
                                 !.scoreLog = Append(@, [kind |-> "bonus", team |-> team,
                                                         type |-> "none", idx |-> 0])]
            IN ClearHistories(GeneratePattern(g2, p))

Points_Swapped(type) == IF type = "purple" THEN GreenPoints ELSE PurplePoints

Points(type) == IF type = "purple" THEN PurplePoints ELSE GreenPoints

PushHistory_DropsNewest(history, type) ==
    LET h == Append(history, type)
    IN IF Len(h) > HistoryCap THEN SubSeq(h, 1, HistoryCap) ELSE h

\* history.push(type); if (history.length > 3) history.shift()
PushHistory(history, type) ==
    LET h == Append(history, type)
    IN IF Len(h) > HistoryCap THEN Tail(h) ELSE h

\* scoreArtifact(team, artifacts[i]) up to its call of checkPattern
\* (lines 365-374, 377-380).
ScorePrefix(g, team, i) ==
    LET type == g.artifacts[i].type
        g1 == SpawnParticles([g EXCEPT !.artifacts[i].scored = TRUE], team, ScoreParticles)
        g2 == AddScore(g1, team, Points(type))
        g3 == IF team = "red"
              THEN [g2 EXCEPT !.redHistory = PushHistory(@, type)]
              ELSE [g2 EXCEPT !.blueHistory = PushHistory(@, type)]
    IN [g3 EXCEPT !.scoreLog = Append(@, [kind |-> "score", team |-> team,
                                         type |-> type, idx |-> i])]

\* scoreArtifact(team, artifacts[i])
ScoreArtifact(g, team, i, p) == CheckPattern(ScorePrefix(g, team, i), team, p)

\* ------------------------------------------------------------ artifacts
\* Artifact.update() of a free artifact (lines 204-209).
ArtifactUpdate(a) ==
    LET p1 == VAdd(a.pos, a.vel)
        v1 == VScale(a.vel, ArtifactFrictionPct, 100)
        outX == p1.x < ARTIFACT_RADIUS * Unit \/ p1.x > (FIELD_WIDTH - ARTIFACT_RADIUS) * Unit
        outY == p1.y < ARTIFACT_RADIUS * Unit \/ p1.y > (FIELD_HEIGHT - ARTIFACT_RADIUS) * Unit
    IN [a EXCEPT !.pos = p1,
                 !.vel = Vec(IF outX THEN -v1.x ELSE v1.x, IF outY THEN -v1.y ELSE v1.y)]

\* The push of one robot on a free artifact (lines 338-341).
Push(a, r) ==
    IF DistLess(r.pos, a.pos, ROBOT_SIZE \div 2 + ARTIFACT_RADIUS)
    THEN [a EXCEPT !.vel = VAdd(@, NormalizeMult(VSub(a.pos, r.pos), PushSpeed * Unit))]
    ELSE a

RedGoalPos == Vec(GoalInset * Unit, (FIELD_HEIGHT \div 2) * Unit)
BlueGoalPos == Vec((FIELD_WIDTH - GoalInset) * Unit, (FIELD_HEIGHT \div 2) * Unit)

IsLive_IgnoresScored(a) == ~a.held

\* The guard of the per-artifact body of update() (line 333).
IsLive(a) == ~a.held /\ ~a.scored

\* One iteration of the artifacts loop of update() (lines 333-352): the set
\* of outcomes, one per pattern a bonus in this iteration may draw.
ArtifactStep(g, i) ==
    IF ~IsLive(g.artifacts[i]) THEN {g}
    ELSE LET a1 == ArtifactUpdate(g.artifacts[i])
             a2 == Push(a1, g.robots["red"])
             a3 == Push(a2, g.robots["blue"])
             g1 == [g EXCEPT !.artifacts[i] = a3]
         IN IF DistLess(a3.pos, RedGoalPos, GOAL_SIZE) /\ ~a3.scored
            THEN {ScoreArtifact(g1, "red", i, p) : p \in Patterns}
            ELSE IF DistLess(a3.pos, BlueGoalPos, GOAL_SIZE) /\ ~a3.scored
            THEN {ScoreArtifact(g1, "blue", i, p) : p \in Patterns}
            ELSE {g1}

RECURSIVE ArtifactLoop(_, _, _)
ArtifactLoop(G, i, n) ==
    IF i > n THEN G
    ELSE ArtifactLoop(UNION {ArtifactStep(g, i) : g \in G}, i + 1, n)

\* The particle loop of update() (lines 355-359).
ParticlesUpdate(ps) ==
    LET aged == [k \in 1..Len(ps) |-> [ps[k] EXCEPT !.life = @ - 1]]
    IN SelectSeq(aged, LAMBDA q : q.life > 0)

\* ------------------------------------------------------------ match
\* The colour of the i-th artifact of a batch: 24 purple, then 12 green.
BatchType(i) == IF i <= NumPurple THEN "purple" ELSE "green"

\* The 36 artifacts of one batch; lay[i] is the random position of the i-th.
Batch(lay) == [i \in 1..(NumPurple + NumGreen) |-> NewArtifact(lay[i], BatchType(i))]

SpawnArtifacts_Appends(g, lay) == [g EXCEPT !.artifacts = @ \o Batch(lay)]

\* spawnArtifacts()
SpawnArtifacts(g, lay) == [g EXCEPT !.artifacts = Batch(lay)]

\* startGame()
StartGame(g, lay, p) ==
    LET g1 == [g EXCEPT !.running = TRUE,
                        !.timeLeft = MatchSeconds,
                        !.secondElapsed = FALSE,
                        !.redScore = 0,
                        !.blueScore = 0,
                        !.msgHidden = TRUE]
        g2 == GeneratePattern(SpawnArtifacts(g1, lay), p)
    IN [g2 EXCEPT !.robots["red"].pos = Vec(RedStartX * Unit, (FIELD_HEIGHT \div 2) * Unit),
                  !.robots["red"].inventory = <<>>,
                  !.robots["blue"].pos = Vec((FIELD_WIDTH - RedStartX) * Unit,
                                             (FIELD_HEIGHT \div 2) * Unit),
                  !.robots["blue"].inventory = <<>>,
                  !.redHistory = <<>>,
                  !.blueHistory = <<>>,
                  !.scoreLog = <<>>,
                  !.actLog = <<>>]

Winner_TieGoesRed(red, blue) == IF red >= blue THEN "RED WINS" ELSE "BLUE WINS"

\* The winner line of endGame (line 509).
Winner(red, blue) ==
    IF red > blue THEN "RED WINS" ELSE IF blue > red THEN "BLUE WINS" ELSE "TIE"

\* endGame()
EndGame(g) ==
    [g EXCEPT !.running = FALSE,
              !.msgText = Winner(g.redScore, g.blueScore),
              !.msgHidden = FALSE]

\* Whether the identifier gamestate of line 302 resolves.  The source declares
\* gameState only, so the lookup throws a ReferenceError.
GamestateDeclared == FALSE

\* The Time block of update() (lines 300-315), entered when a second has
\* passed since lastTime.  Where the lookup of gamestate succeeds,
\* gamestate.timeleft is undefined and the comparison with 60000 is false.
ClockTick(g) ==
    LET g1 == [g EXCEPT !.timeLeft = @ - 1]
    IN IF ~GamestateDeclared THEN [g1 EXCEPT !.threw = TRUE]
       ELSE LET g2 == [g1 EXCEPT !.secondElapsed = FALSE]
            IN IF g2.timeLeft <= 0 THEN EndGame(g2) ELSE g2

\* The robots loop of update() (line 317).
RobotsUpdate(g, input) == RobotUpdate(RobotUpdate(g, "red", input), "blue", input)

\* update() after its Time block (lines 317-361): robots, artifacts, particles.
UpdateRest(g, input) ==
    LET g2 == RobotsUpdate(g, input)
        G == ArtifactLoop({g2}, 1, Len(g2.artifacts))
    IN {[h EXCEPT !.particles = ParticlesUpdate(@)] : h \in G}

\* update() (lines 293-362): the set of outcomes of one call, over the
\* random draws it makes.  lays are the layouts spawnArtifacts() may draw.
Update(g, input, lays) ==
    IF ~g.running
    THEN IF Pressed(input, "Space")
         THEN {StartGame(g, lay, p) : lay \in lays, p \in Patterns}
         ELSE {g}
    ELSE LET g1 == IF g.secondElapsed THEN ClockTick(g) ELSE g
         IN IF g1.threw THEN {g1} ELSE UpdateRest(g1, input)


\* ------------------------------------------------------------ environment
\* The random spawn positions: Math.random() * (size - 200) + 100 on each
\* axis.  The probes land in the red or in the blue goal zone, the other
\* artifacts on a raster between the goals.
ProbeIndex(k) == IF k % 2 = 1 THEN (k + 1) \div 2 ELSE NumPurple + k \div 2
ProbeIdx == {ProbeIndex(k) : k \in 1..NumProbes}
RedZonePoint == Vec((SpawnMargin + 10) * Unit, (FIELD_HEIGHT \div 2) * Unit)
BlueZonePoint == Vec((FIELD_WIDTH - SpawnMargin - 10) * Unit, (FIELD_HEIGHT \div 2) * Unit)
SpawnPoints == {RedZonePoint, BlueZonePoint}
QuietPos(i) == Vec((300 + 40 * i) * Unit, 300 * Unit)
Layouts ==
    {[i \in 1..(NumPurple + NumGreen) |-> IF i \in ProbeIdx THEN f[i] ELSE QuietPos(i)] :
        f \in [ProbeIdx -> SpawnPoints]}

\* The key maps a frame may read.
InputSets ==
    {{}, {"Space", "KeyF"}, {"Space", "KeyF", "KeyM"}, {"KeyA", "KeyW", "ArrowRight"}}

\* ------------------------------------------------------------ actions
Init ==
    /\ running = FALSE
    /\ timeLeft = MatchSeconds
    /\ secondElapsed = TRUE
    /\ robots = [id \in RobotIds |->
                   IF id = "red" THEN NewRobot(id, RedStartX, FIELD_HEIGHT \div 2)
                   ELSE NewRobot(id, FIELD_WIDTH - RedStartX, FIELD_HEIGHT \div 2)]
    /\ artifacts = <<>>
    /\ particles = <<>>
    /\ targetPattern = <<>>
    /\ redScore = 0
    /\ blueScore = 0
    /\ redHistory = <<>>
    /\ blueHistory = <<>>
    /\ msgText = ""
    /\ msgHidden \in BOOLEAN
    /\ timers = 0
    /\ loopAlive = TRUE
    /\ frames = 0
    /\ scoreLog = <<>>
    /\ actLog = <<>>
    /\ lastOp = [op |-> "load", input |-> {}]

\* What a call of update() does, by its first branch.
OpOf(g, h) ==
    IF ~g.running THEN (IF h.running THEN "startGame" ELSE "idle")
    ELSE IF h.threw THEN "threw"
    ELSE IF g.secondElapsed THEN "tick"
    ELSE "update"

\* One animation frame (lines 479-482, 524-527): update(), then draw(),
\* which schedules the next frame.  An exception in update() skips draw(),
\* so no further frame is scheduled.
FrameWith(inputs, bound) ==
    /\ loopAlive
    /\ \E input \in inputs :
          /\ running => (frames < bound \/ secondElapsed)
          /\ \E g \in Update(GS, input, Layouts) :
                /\ Commit(g)
                /\ loopAlive' = ~g.threw
                /\ frames' = IF running THEN frames + 1 ELSE 0
                /\ lastOp' = [op |-> OpOf(GS, g), input |-> input]

Frame == FrameWith(InputSets, MaxFrames)

\* A second of wall-clock time has passed since lastTime was set.
Elapse ==
    /\ ~secondElapsed
    /\ secondElapsed' = TRUE
    /\ lastOp' = [op |-> "elapse", input |-> {}]
    /\ UNCHANGED <<running, timeLeft, robots, artifacts, particles, targetPattern,
                   redScore, blueScore, redHistory, blueHistory, msgText, msgHidden,
                   timers, loopAlive, frames, scoreLog, actLog>>

BannerTimeout_Unconditional(g) == [g EXCEPT !.msgHidden = TRUE]

\* The body of the setTimeout callback of checkPattern (line 412).
BannerTimeout(g) == IF g.running THEN [g EXCEPT !.msgHidden = TRUE] ELSE g

\* The setTimeout callback of checkPattern (lines 411-413) runs.
TimerFire ==
    /\ timers > 0
    /\ Commit([BannerTimeout(GS) EXCEPT !.timers = @ - 1])
    /\ lastOp' = [op |-> "timer", input |-> {}]
    /\ UNCHANGED <<loopAlive, frames>>

Next == Frame \/ Elapse \/ TimerFire

Spec == Init /\ [][Next]_vars


\* ------------------------------------------------------------ mid-match
\* States of a match in progress that the frame bound keeps out of reach of
\* Spec: each robot has driven out of its goal zone along the centre line,
\* has taken in some of the artifacts that had spawned on its way, and has
\* come to rest with its cooldown expired; an artifact may lie within its
\* intake range.  No artifact has been scored so far.
Carry(id) == IF id = "red" THEN <<1, NumPurple + 1, 2>> ELSE <<NumPurple + 2, 3, NumPurple + 3>>
NearIdx(id) == IF id = "red" THEN 10 ELSE NumPurple + 6
\* Where the robot rests and which way it faces: away from its goal at 400
\* from its wall, or toward its goal at 230 from its wall, on the centre
\* line (side is the distance from the top wall for red, from the bottom
\* wall for blue).
MidPoses == {[off |-> 400, side |-> FIELD_HEIGHT \div 2, toGoal |-> FALSE],
             [off |-> 230, side |-> FIELD_HEIGHT \div 2, toGoal |-> TRUE]}
MidX(id, off) == IF id = "red" THEN off ELSE FIELD_WIDTH - off
MidY(id, side) == IF id = "red" THEN side ELSE FIELD_HEIGHT - side
MidRobot(id, pose, k) ==
    [pos |-> Vec(MidX(id, pose.off) * Unit, MidY(id, pose.side) * Unit),
     vel |-> Zero,
     angle |-> IF (id = "red") = pose.toGoal THEN Vec(-DirUnit, 0) ELSE Vec(DirUnit, 0),
     inventory |-> SubSeq(Carry(id), 1, k),
     cooldown |-> 0]
MidArtifact(i, pose, k, n) ==
    LET type == BatchType(i)
        line == (FIELD_HEIGHT \div 2) * Unit
        carried(id) == \E j \in 1..k[id] : Carry(id)[j] = i
        slot(id) == CHOOSE j \in 1..k[id] : Carry(id)[j] = i
    IN IF carried("red")
       THEN [NewArtifact(Vec(MidX("red", 240 + 20 * slot("red")) * Unit, line), type)
                EXCEPT !.held = TRUE, !.holder = "red"]
       ELSE IF carried("blue")
       THEN [NewArtifact(Vec(MidX("blue", 240 + 20 * slot("blue")) * Unit, line), type)
                EXCEPT !.held = TRUE, !.holder = "blue"]
       ELSE IF n > 0 /\ i = NearIdx("red")
       THEN NewArtifact(Vec(MidX("red", pose.off + 30) * Unit,
                            MidY("red", pose.side) * Unit), type)
       ELSE IF n > 0 /\ i = NearIdx("blue")
       THEN NewArtifact(Vec(MidX("blue", pose.off + 30) * Unit,
                            MidY("blue", pose.side) * Unit), type)
       ELSE NewArtifact(QuietPos(i), type)

\* The earlier intakes of a mid-match state, for actLog.
MidActs(id, k) ==
    [j \in 1..k |-> [robot |-> id, kind |-> "capture", idx |-> Carry(id)[j], frame |-> 0]]

MidInit(poses, ks, ns, pats) ==
    \E pose \in poses, k \in ks, n \in ns :
        /\ running = TRUE
        /\ timeLeft = MatchSeconds
        /\ secondElapsed = FALSE
        /\ robots = [id \in RobotIds |-> MidRobot(id, pose, k[id])]
        /\ artifacts = [i \in 1..(NumPurple + NumGreen) |-> MidArtifact(i, pose, k, n)]
        /\ particles = <<>>
        /\ targetPattern \in pats
        /\ redScore = 0
        /\ blueScore = 0
        /\ redHistory = <<>>
        /\ blueHistory = <<>>
        /\ msgText = ""
        /\ msgHidden = TRUE
        /\ timers = 0
        /\ loopAlive = TRUE
        /\ frames = 0
        /\ scoreLog = <<>>
        /\ actLog = MidActs("red", k["red"]) \o MidActs("blue", k["blue"])
        /\ lastOp = [op |-> "mid", input |-> {}]

InitMid == MidInit(MidPoses, [RobotIds -> 0..MAX_INVENTORY], 0..1, Patterns)

NextMid == Frame \/ Elapse

SpecMid == InitMid /\ [][NextMid]_vars

\* ------------------------------------------------------------ drive
\* Longer runs of frames within one second of the clock, with keys that are
\* held for KeyHold frames at a time.  The robots begin at the positions
\* startGame() gives them, at one of the mid-match poses, or at rest close
\* to a corner of the field (red top left, blue bottom right), with empty or
\* full inventories.
MaxDriveFrames == 62
KeyHold == 16

StartPose == [off |-> RedStartX, side |-> FIELD_HEIGHT \div 2, toGoal |-> FALSE]
CornerPose == [off |-> ROBOT_SIZE + 2, side |-> ROBOT_SIZE + 2, toGoal |-> TRUE]
DrivePoses == MidPoses \cup {StartPose, CornerPose}
DriveCarries == {[id \in RobotIds |-> c] : c \in {0, MAX_INVENTORY}}
DriveInputs ==
    {{}, {"KeyF", "KeyM"}, {"KeyA", "KeyW", "ArrowRight", "ArrowDown"}}

InitDrive == MidInit(DrivePoses, DriveCarries, 0..1, {<<"purple", "green", "purple">>})

\* The key maps the next frame may read: the keys change only every
\* KeyHold frames.
HeldInputs == {input \in DriveInputs : (frames % KeyHold # 0) => input = lastOp.input}

FrameDrive == FrameWith(HeldInputs, MaxDriveFrames)

NextDrive == FrameDrive

SpecDrive == InitDrive /\ [][NextDrive]_vars

\* ------------------------------------------------------------ last frame
\* The end of a match.  The exception of line 302 keeps every run of the
\* program from reaching the tick that brings timeLeft to 0; here that frame
\* is run from mid-match states, from its call of endGame() on line 314 on:
\* endGame() returns into update(), which goes on with the robots, the
\* artifacts and the particles (lines 317-361).  Space is not pressed, so
\* no match is started again.
EndInputs == {{}, {"KeyF", "KeyM"}}

InitEnd == MidInit(MidPoses, [RobotIds -> 0..MAX_INVENTORY], 0..1,
                   {<<"purple", "green", "purple">>})

FrameEnd == FrameWith(EndInputs, MaxFrames)

FinalFrame ==
    /\ loopAlive
    /\ running
    /\ \E input \in EndInputs :
          \E g \in UpdateRest([EndGame(GS) EXCEPT !.timeLeft = 0, !.secondElapsed = FALSE],
                              input) :
              /\ Commit(g)
              /\ lastOp' = [op |-> "finalFrame",
                            input |-> [keys |-> input,
                                       before |-> [red |-> redScore, blue |-> blueScore]]]
    /\ frames' = frames + 1
    /\ UNCHANGED loopAlive

NextEnd == FrameEnd \/ FinalFrame

SpecEnd == InitEnd /\ [][NextEnd]_vars

\* ------------------------------------------------------------ calls
\* The functions of the match logic applied one call at a time, each where
\* the guard of its call site in update() allows it; the physics that brings
\* an artifact into a goal and the clock that ends a match are left open.
\* frames counts the calls.
MaxCalls == 5

InCall == lastOp.op = "scoreArtifact"
CallLayouts == {lay \in Layouts : \A i \in ProbeIdx : lay[i] = RedZonePoint}
ScoresNow == [red |-> redScore, blue |-> blueScore]

\* The first live artifact of each colour.
FirstLive(type) ==
    LET c == {i \in 1..Len(artifacts) : IsLive(artifacts[i]) /\ artifacts[i].type = type}
    IN IF c = {} THEN {} ELSE {CHOOSE i \in c : \A j \in c : i <= j}

\* update() calls startGame() (lines 294-295).
StartGameCall ==
    /\ ~InCall /\ frames < MaxCalls
    /\ ~running
    /\ \E lay \in CallLayouts, p \in Patterns : Commit(StartGame(GS, lay, p))
    /\ frames' = frames + 1
    /\ lastOp' = [op |-> "startGame", input |-> {}]
    /\ UNCHANGED loopAlive

\* update() calls scoreArtifact(team, a) for a live artifact (lines 333, 347-351);
\* the step runs the call up to its call of checkPattern.
ScoreBegin ==
    /\ ~InCall /\ frames < MaxCalls
    /\ running
    /\ \E team \in RobotIds, type \in Types : \E i \in FirstLive(type) :
          /\ Commit(ScorePrefix(GS, team, i))
          /\ lastOp' = [op |-> "scoreArtifact",
                        input |-> [team |-> team, type |-> type, before |-> ScoresNow]]
    /\ frames' = frames + 1
    /\ UNCHANGED loopAlive

\* scoreArtifact calls checkPattern(team) (lines 375, 381) and returns.
CheckPatternCall ==
    /\ InCall
    /\ \E p \in Patterns : Commit(CheckPattern(GS, lastOp.input.team, p))
    /\ lastOp' = [op |-> "checkPattern", input |-> lastOp.input]
    /\ UNCHANGED <<loopAlive, frames>>

\* update() runs the robots (line 317).
RobotsCall ==
    /\ ~InCall /\ frames < MaxCalls
    /\ running
    /\ \E input \in {{"KeyF", "KeyM", "KeyA"}} :
          /\ Commit(RobotsUpdate(GS, input))
          /\ lastOp' = [op |-> "robots", input |-> input]
    /\ frames' = frames + 1
    /\ UNCHANGED loopAlive

\* update() calls endGame() (line 314).
EndGameCall ==
    /\ ~InCall /\ frames < MaxCalls
    /\ running
    /\ Commit(EndGame(GS))
    /\ lastOp' = [op |-> "endGame", input |-> [before |-> ScoresNow]]
    /\ frames' = frames + 1
    /\ UNCHANGED loopAlive

NextCalls == StartGameCall \/ ScoreBegin \/ CheckPatternCall \/ RobotsCall \/ EndGameCall

SpecCalls == Init /\ [][NextCalls]_vars

\* The calls together with the banner timers, which run between calls.
TimerFireCall == ~InCall /\ TimerFire

NextTimer == StartGameCall \/ ScoreBegin \/ CheckPatternCall \/ EndGameCall \/ TimerFireCall

SpecTimer == Init /\ [][NextTimer]_vars

\* ------------------------------------------------------------ claims
Inventories == {robots[id].inventory : id \in RobotIds}
InSomeInventory(i) == \E id \in RobotIds : \E k \in 1..Len(robots[id].inventory) :
                          robots[id].inventory[k] = i
IsFree(a) == ~a.held /\ ~a.scored
IsHeld(a) == a.held /\ a.holder \in RobotIds /\ ~a.scored
IsScored(a) == a.scored /\ ~a.held
ScoreEventsOf(i) == {k \in 1..Len(scoreLog) : scoreLog[k].kind = "score" /\ scoreLog[k].idx = i}

C1_States ==
    \A i \in 1..Len(artifacts) :
        /\ IsFree(artifacts[i]) \/ IsHeld(artifacts[i]) \/ IsScored(artifacts[i])
        /\ Cardinality(ScoreEventsOf(i)) <= 1

C1_ScoredIsInert ==
    \A i \in 1..Len(artifacts) :
        (artifacts[i].scored /\ lastOp'.op # "startGame") =>
            /\ i <= Len(artifacts')
            /\ artifacts'[i] = artifacts[i]
            /\ \A id \in RobotIds : \A k \in 1..Len(robots'[id].inventory) :
                   robots'[id].inventory[k] # i
            /\ ScoreEventsOf(i)' = ScoreEventsOf(i)

\* C1: every artifact is free, held (with a holder) or scored, never held and
\* scored at once; a scored artifact stays scored, and no later step moves
\* it, changes its velocity, takes it into an inventory or scores it again.
C1_ArtifactLifecycle == []C1_States /\ [][C1_ScoredIsInert]_vars

\* A scored artifact lies within push and intake range of the red robot, whose
\* action has just fired in a later frame and has taken nothing in.
C1_Witness ==
    /\ lastOp.op = "update"
    /\ frames = 2
    /\ "KeyF" \in lastOp.input
    /\ robots["red"].cooldown = ActionCooldown - 1
    /\ \E i \in 1..Len(artifacts) :
          /\ artifacts[i].scored
          /\ DistLess(robots["red"].pos, artifacts[i].pos, ROBOT_SIZE \div 2 + ARTIFACT_RADIUS)
    /\ robots["red"].inventory = <<>>


\* C2: every robot's inventory holds between 0 and MAX_INVENTORY artifacts,
\* whatever frames, starts and action activations have happened.
C2_InventoryBounded ==
    \A id \in RobotIds :
        Len(robots[id].inventory) >= 0 /\ Len(robots[id].inventory) <= MAX_INVENTORY

\* The red robot's action has just fired with a full inventory and a free
\* artifact in intake range: nothing was taken in, the oldest entry was shot.
C2_Witness ==
    /\ lastOp.op = "update"
    /\ frames = 1
    /\ "KeyF" \in lastOp.input
    /\ robots["red"].cooldown = ActionCooldown - 1
    /\ Len(robots["red"].inventory) = MAX_INVENTORY - 1
    /\ IsFree(artifacts[NearIdx("red")])
    /\ DistLess(robots["red"].pos, artifacts[NearIdx("red")].pos, ROBOT_SIZE + IntakeMargin)


\* The step in which scoreArtifact's call of checkPattern runs.
IsCheckStep == lastOp.op = "scoreArtifact" /\ lastOp'.op = "checkPattern"
TeamHistory(team) == IF team = "red" THEN redHistory ELSE blueHistory
TeamScore(team) == IF team = "red" THEN redScore ELSE blueScore
\* The team's history has three entries, equal to the target one by one.
HistoryIsTarget(team) ==
    /\ Len(TeamHistory(team)) = 3
    /\ Len(targetPattern) = 3
    /\ \A i \in 1..3 : TeamHistory(team)[i] = targetPattern[i]
IsPattern(seq) == Len(seq) = 3 /\ \A i \in 1..3 : seq[i] \in {"purple", "green"}
LastEventIs(kind) == scoreLog # <<>> /\ scoreLog[Len(scoreLog)].kind = kind

\* C3: checkPattern(team), called while the team's history equals the target
\* pattern, adds 20 to that team's score, leaves the other score alone,
\* empties both histories and installs a new pattern of three colours.
C3_MatchAwardsBonus ==
    [][IsCheckStep =>
         LET team == lastOp.input.team
         IN HistoryIsTarget(team) =>
              /\ TeamScore(team)' = TeamScore(team) + 20
              /\ TeamScore(Other(team))' = TeamScore(Other(team))
              /\ redHistory' = <<>>
              /\ blueHistory' = <<>>
              /\ IsPattern(targetPattern')]_vars

\* checkPattern has just awarded a bonus in a match in which the other team
\* had scored too.
C3_Witness ==
    /\ lastOp.op = "checkPattern"
    /\ LastEventIs("bonus")
    /\ \E k \in 1..Len(scoreLog) :
          scoreLog[k].kind = "score" /\ scoreLog[k].team = Other(lastOp.input.team)

\* C4: checkPattern(team), called while the team's history is shorter than
\* three or differs from the target somewhere, changes neither score, neither
\* history nor the target, and schedules no banner timer.
C4_MismatchIsNoOp ==
    [][IsCheckStep =>
         (~HistoryIsTarget(lastOp.input.team) =>
              UNCHANGED <<redScore, blueScore, redHistory, blueHistory,
                          targetPattern, timers, msgText, msgHidden>>)]_vars

\* checkPattern has just returned on a full history that differs from the
\* target.
C4_Witness ==
    /\ lastOp.op = "checkPattern"
    /\ Len(TeamHistory(lastOp.input.team)) = 3
    /\ \E i \in 1..3 : TeamHistory(lastOp.input.team)[i] # targetPattern[i]

\* C5: a call scoreArtifact(team, a) raises the team's score by 5 for a purple
\* and 10 for a green artifact, plus 20 exactly if its pattern check
\* matches, and leaves the other team's score alone.
C5_ScoreDelta ==
    [][IsCheckStep =>
         LET team == lastOp.input.team
             before == lastOp.input.before
             delta == TeamScore(team)' - before[team]
             pts == IF lastOp.input.type = "purple" THEN 5 ELSE 10
         IN /\ delta = pts + (IF HistoryIsTarget(team) THEN 20 ELSE 0)
            /\ delta \in {5, 10, 25, 30}
            /\ TeamScore(Other(team))' = before[Other(team)]]_vars

\* A call has just scored a green artifact that completed the pattern.
C5_Witness ==
    /\ lastOp.op = "checkPattern"
    /\ lastOp.input.type = "green"
    /\ TeamScore(lastOp.input.team) - lastOp.input.before[lastOp.input.team] = 30

\* The position in scoreLog of the last event that emptied the histories.
LastClear ==
    LET c == {k \in 1..Len(scoreLog) : scoreLog[k].kind = "bonus"}
    IN IF c = {} THEN 0 ELSE CHOOSE k \in c : \A j \in c : j <= k
\* The colours the team has scored since the histories were last emptied.
ScoredSinceClear(team) ==
    LET evs == SelectSeq(SubSeq(scoreLog, LastClear + 1, Len(scoreLog)),
                         LAMBDA e : e.kind = "score" /\ e.team = team)
    IN [k \in 1..Len(evs) |-> evs[k].type]
LastUpTo(seq, n) == IF Len(seq) <= n THEN seq ELSE SubSeq(seq, Len(seq) - n + 1, Len(seq))

\* C6: each history has at most three entries and holds, in scoring order,
\* the colours of the last up to three artifacts its team has scored since
\* the histories were last emptied.
C6_HistoryIsRecent ==
    \A team \in RobotIds :
        /\ Len(TeamHistory(team)) <= 3
        /\ TeamHistory(team) = LastUpTo(ScoredSinceClear(team), 3)

\* A team has scored a fourth artifact since the histories were emptied.
C6_Witness ==
    /\ lastOp.op = "checkPattern"
    /\ Len(ScoredSinceClear(lastOp.input.team)) = 4
    /\ ScoredSinceClear(lastOp.input.team)[1] # ScoredSinceClear(lastOp.input.team)[4]

CountOf(type) == Cardinality({i \in 1..Len(artifacts) : artifacts[i].type = type})

\* C7: right after startGame the match runs with 120 seconds left, both
\* scores 0 and both histories empty, the collection is 24 purple and 12
\* green free artifacts, the robots stand at their start positions with
\* empty inventories, and the target is a pattern of three colours.
C7_StartResets ==
    lastOp.op = "startGame" =>
        /\ running
        /\ redScore = 0 /\ blueScore = 0
        /\ timeLeft = 120
        /\ redHistory = <<>> /\ blueHistory = <<>>
        /\ Len(artifacts) = 36
        /\ CountOf("purple") = 24 /\ CountOf("green") = 12
        /\ \A i \in 1..Len(artifacts) :
              ~artifacts[i].held /\ ~artifacts[i].scored /\ artifacts[i].holder = "none"
        /\ robots["red"].pos = Vec(100 * Unit, (FIELD_HEIGHT \div 2) * Unit)
        /\ robots["blue"].pos = Vec((FIELD_WIDTH - 100) * Unit, (FIELD_HEIGHT \div 2) * Unit)
        /\ robots["red"].inventory = <<>> /\ robots["blue"].inventory = <<>>
        /\ IsPattern(targetPattern)

\* A restart after a match in which an artifact was scored and the red robot
\* moved and acted.
C7_Witness ==
    /\ lastOp.op = "startGame"
    /\ particles # <<>>
    /\ robots["red"].cooldown > 0
    /\ robots["red"].vel # Zero

\* C9: endGame stops the match and declares RED WINS if red has more points,
\* BLUE WINS if blue has more, and the tie exactly if the scores are equal.
C9_EndDeclaresWinner ==
    lastOp.op = "endGame" =>
        LET red == lastOp.input.before.red
            blue == lastOp.input.before.blue
        IN /\ ~running
           /\ red > blue => msgText = "RED WINS"
           /\ blue > red => msgText = "BLUE WINS"
           /\ (msgText = "TIE") <=> (red = blue)
           /\ ~msgHidden

\* endGame has just declared blue the winner.
C9_Witness ==
    /\ lastOp.op = "endGame"
    /\ blueScore > redScore
    /\ msgText = "BLUE WINS"


\* C8: a started match holds 36 artifacts until the clock reaches 60 seconds
\* and 72 from then on, and the second wave of 24 purple and 12 green
\* artifacts arrives in every match: a running match that has not received
\* it yet still has its next frame scheduled, so the tick that brings it
\* can still occur.
C8_SecondWave ==
    /\ running => Len(artifacts) = IF timeLeft > 60 THEN NumPurple + NumGreen
                                   ELSE 2 * (NumPurple + NumGreen)
    /\ (running /\ Len(artifacts) # 2 * (NumPurple + NumGreen)) => loopAlive

\* C10: timeLeft stays within 0..120, a match is only ever found stopped
\* with the clock at 120 (never started) or at 0 (ended on the last tick),
\* and every started match ends: while it is running its next frame is
\* scheduled, so the remaining ticks can still occur.
C10_MatchClock ==
    /\ timeLeft \in 0..MatchSeconds
    /\ ~running => timeLeft \in {0, MatchSeconds}
    /\ running => loopAlive

\* Half the side of the square a robot is drawn as.
RobotHalfSize == ROBOT_SIZE \div 2
InField(p, margin) ==
    /\ margin * Unit <= p.x /\ p.x <= (FIELD_WIDTH - margin) * Unit
    /\ margin * Unit <= p.y /\ p.y <= (FIELD_HEIGHT - margin) * Unit

\* C11: in every state each robot's position lies within
\* [robotHalfSize, FIELD_WIDTH - robotHalfSize] x
\* [robotHalfSize, FIELD_HEIGHT - robotHalfSize], with robotHalfSize = 20,
\* whatever keys are pressed and whatever velocity the robot has.
C11_RobotInField == \A id \in RobotIds : InField(robots[id].pos, RobotHalfSize)

\* The red robot has been driven into the top left corner and is still
\* pushing against both walls; the blue robot likewise at the bottom right.
C11_Witness ==
    /\ lastOp.op = "update"
    /\ "KeyA" \in lastOp.input /\ "KeyW" \in lastOp.input
    /\ robots["red"].vel.x < 0 /\ robots["red"].vel.y < 0
    /\ robots["red"].pos = Vec(ClampMargin * Unit, ClampMargin * Unit)
    /\ robots["blue"].vel.x > 0 /\ robots["blue"].vel.y > 0
    /\ robots["blue"].pos = Vec((FIELD_WIDTH - ClampMargin) * Unit,
                                (FIELD_HEIGHT - ClampMargin) * Unit)


\* The state in which a robot's update() runs within the frame that reads
\* input: red's is the state at the start of the frame, blue's the state
\* that red's update() has left.
StateAt(id, input) == IF id = "red" THEN GS ELSE RobotUpdate(GS, "red", input)
\* The new entries of actLog.
NewActs == SubSeq(actLog', Len(actLog) + 1, Len(actLog'))
ActsOf(acts, id) == SelectSeq(acts, LAMBDA e : e.robot = id)
\* The robot's action is activated in the frame, its inventory is empty and
\* no free, unscored artifact is within intake range of where it stands.
EmptyActivation(id, input) ==
    LET g == StateAt(id, input)
        r == RobotMove(g.robots[id], input, id)
    IN /\ Controls(id).action \in input
       /\ g.robots[id].cooldown <= 0
       /\ g.robots[id].inventory = <<>>
       /\ \A i \in 1..Len(g.artifacts) :
             ~(~g.artifacts[i].held /\ ~g.artifacts[i].scored
               /\ DistLess(r.pos, g.artifacts[i].pos, ROBOT_SIZE + IntakeMargin))
\* The frame came out as it does without the robot's action key, but for
\* the robot's cooldown.
AsWithoutAction(id, input) ==
    \E g \in Update(GS, input \ {Controls(id).action}, Layouts) :
        /\ robots' = [g.robots EXCEPT ![id].cooldown = ActionCooldown - 1]
        /\ artifacts' = g.artifacts
        /\ particles' = g.particles
        /\ <<redScore', blueScore', redHistory', blueHistory', targetPattern'>> =
               <<g.redScore, g.blueScore, g.redHistory, g.blueHistory, g.targetPattern>>

C12_Step ==
    \A id \in RobotIds :
        (lastOp'.op = "update" /\ EmptyActivation(id, lastOp'.input)) =>
            /\ robots'[id].inventory = <<>>
            /\ robots'[id].vel = RobotMove(StateAt(id, lastOp'.input).robots[id],
                                           lastOp'.input, id).vel
            /\ \A i \in 1..Len(artifacts') : artifacts'[i].holder # id
            /\ ActsOf(NewActs, id) = <<[robot |-> id, kind |-> "none", idx |-> 0,
                                        frame |-> frames']>>
            /\ AsWithoutAction(id, lastOp'.input)

\* C12: when a robot's action is activated while its inventory is empty and
\* no free, unscored artifact is within intake range, nothing changes but
\* that robot's cooldown: the inventory stays empty, the velocity receives
\* no recoil, no artifact, score or history is touched and no particle is
\* spawned, so the frame comes out as it does without the action key.
C12_EmptyActionIsNoOp == [][C12_Step]_vars

\* Both robots have just had their action activated with empty inventories
\* and nothing in range.
C12_Witness ==
    /\ lastOp.op = "update"
    /\ frames = 1
    /\ lastOp.input = {"Space", "KeyF", "KeyM"}
    /\ actLog = <<[robot |-> "red", kind |-> "none", idx |-> 0, frame |-> 1],
                  [robot |-> "blue", kind |-> "none", idx |-> 0, frame |-> 1]>>
    /\ \A id \in RobotIds : robots[id].cooldown = ActionCooldown - 1


ResultTexts == {"RED WINS", "BLUE WINS", "TIE"}

C13_Step ==
    lastOp'.op = "timer" =>
        /\ msgHidden' = (running \/ msgHidden)
        /\ msgText' = msgText
        /\ running' = running

\* Between endGame and the next startGame the result banner is on display.
C13_ResultStays == (~running /\ frames > 0) => (~msgHidden /\ msgText \in ResultTexts)

\* C13: the callback of the banner timer tests running when it fires: it
\* hides the banner if and only if the match is running at that moment, so a
\* timer that fires after the match has ended leaves the result banner
\* visible, whatever the order of calls, match end, restart and timers.
C13_BannerTimer == [][C13_Step]_vars /\ []C13_ResultStays

\* A timer scheduled by a pattern bonus has just fired after endGame.
C13_Witness ==
    /\ lastOp.op = "timer"
    /\ ~running
    /\ ~msgHidden
    /\ msgText \in ResultTexts
    /\ \E k \in 1..Len(scoreLog) : scoreLog[k].kind = "bonus"


\* The robot's action is activated in the frame that reads input.
Activated(id, input) ==
    Controls(id).action \in input /\ StateAt(id, input).robots[id].cooldown <= 0
\* The artifacts the robot can take in when its update() runs.
Reachable(id, input) ==
    LET g == StateAt(id, input)
        r == RobotMove(g.robots[id], input, id)
    IN {i \in 1..Len(g.artifacts) :
           /\ ~g.artifacts[i].held /\ ~g.artifacts[i].scored
           /\ DistLess(r.pos, g.artifacts[i].pos, ROBOT_SIZE + IntakeMargin)}
HeldBy(arts, id) == {i \in 1..Len(arts) : arts[i].held /\ arts[i].holder = id}
Range(seq) == {seq[k] : k \in 1..Len(seq)}

C14_Step ==
    \A id \in RobotIds :
        LET input == lastOp'.input
            inv == robots[id].inventory
            inv2 == robots'[id].inventory
            intake == Len(inv) < MAX_INVENTORY /\ Reachable(id, input) # {}
        IN lastOp'.op = "update" =>
             /\ (Activated(id, input) /\ intake) =>
                   /\ \E i \in Reachable(id, input) : inv2 = Append(inv, i)
                   /\ HeldBy(artifacts', id) = Range(inv2)
                   /\ Len(ActsOf(NewActs, id)) = 1
             /\ (Activated(id, input) /\ ~intake /\ inv # <<>>) =>
                   /\ Len(inv2) = Len(inv) - 1
                   /\ Range(inv2) \subseteq Range(inv)
                   /\ HeldBy(artifacts', id) = Range(inv2)
                   /\ Len(ActsOf(NewActs, id)) = 1
             /\ ~Activated(id, input) => inv2 = inv
             /\ Cardinality(Range(inv2) \ Range(inv)) + Cardinality(Range(inv) \ Range(inv2)) <= 1

\* C14: an activation of a robot's action does at most one of capture and
\* shoot, and intake comes first: with room in the inventory and a free,
\* unscored artifact in range exactly one artifact is captured, appended at
\* the end of the inventory, and nothing is shot; otherwise, with a
\* non-empty inventory (a full one with artifacts in range included),
\* exactly one artifact is shot and none captured.
C14_IntakeOrShoot == [][C14_Step]_vars

\* The red robot, carrying two artifacts, has just taken in a third one that
\* lay in range, and has shot none.
C14_Witness ==
    /\ lastOp.op = "update"
    /\ frames = 1
    /\ robots["red"].inventory = <<Carry("red")[1], Carry("red")[2], NearIdx("red")>>
    /\ artifacts[NearIdx("red")].held
    /\ artifacts[NearIdx("red")].holder = "red"
    /\ actLog[Len(actLog)].kind = "capture"


\* The artifacts a robot has taken in, and those it has released, in order.
IdxOf(acts) == [k \in 1..Len(acts) |-> acts[k].idx]
Captured(id) == IdxOf(SelectSeq(actLog, LAMBDA e : e.robot = id /\ e.kind = "capture"))
Released(id) == IdxOf(SelectSeq(actLog, LAMBDA e : e.robot = id /\ e.kind = "shoot"))

\* The releases of a robot are its captures in the same order, and what it
\* has captured and not yet released is its inventory, oldest first.
C15_Order ==
    \A id \in RobotIds :
        /\ Len(Released(id)) <= Len(Captured(id))
        /\ Released(id) = SubSeq(Captured(id), 1, Len(Released(id)))
        /\ robots[id].inventory =
               SubSeq(Captured(id), Len(Released(id)) + 1, Len(Captured(id)))

\* A shoot releases the head of the inventory, which becomes free and is in
\* no inventory afterwards.
C15_ReleaseStep ==
    \A id \in RobotIds :
        \A k \in 1..Len(NewActs) :
            (NewActs[k].robot = id /\ NewActs[k].kind = "shoot") =>
                /\ robots[id].inventory # <<>>
                /\ NewActs[k].idx = Head(robots[id].inventory)
                /\ robots'[id].inventory = Tail(robots[id].inventory)
                /\ ~artifacts'[NewActs[k].idx].held
                /\ artifacts'[NewActs[k].idx].holder = "none"
                /\ \A r \in RobotIds : NewActs[k].idx \notin Range(robots'[r].inventory)

\* C15: a robot's inventory is a FIFO queue: every shoot releases the
\* artifact that has been in the inventory longest, so the artifacts leave
\* in the order in which they were captured; the released artifact is no
\* longer held, has no holder and is in no inventory.
C15_InventoryIsFifo == []C15_Order /\ [][C15_ReleaseStep]_vars

\* The red robot has released four artifacts: the three it carried and then
\* the one it took in after its first shot.
C15_Witness ==
    /\ Len(Released("red")) = MAX_INVENTORY + 1
    /\ Released("red")[MAX_INVENTORY + 1] = NearIdx("red")
    /\ robots["red"].inventory = <<>>


\* The frames of this run in which the robot's action was invoked, in order.
ActFrames(id) ==
    LET acts == SelectSeq(actLog, LAMBDA e : e.robot = id /\ e.frame > 0)
    IN [k \in 1..Len(acts) |-> acts[k].frame]

C16_Range ==
    \A id \in RobotIds :
        /\ robots[id].cooldown \in 0..ActionCooldown
        /\ \A k \in 1..(Len(ActFrames(id)) - 1) :
               ActFrames(id)[k + 1] >= ActFrames(id)[k] + ActionCooldown

C16_Step ==
    \A id \in RobotIds :
        LET input == lastOp'.input
            invoked == ActsOf(NewActs, id) # <<>>
        IN lastOp'.op = "update" =>
             /\ invoked <=> (Controls(id).action \in input /\ robots[id].cooldown = 0)
             /\ invoked => robots'[id].cooldown = ActionCooldown - 1
             /\ ~invoked => robots'[id].cooldown =
                               IF robots[id].cooldown > 0 THEN robots[id].cooldown - 1 ELSE 0

\* C16: a robot's cooldown is an integer from 0 to 15; its action is invoked
\* in a frame only if the action key is pressed and the cooldown is 0 at
\* that point; after an activation in frame t the next one of the same
\* robot comes no earlier than frame t + 15, even with the key held down;
\* and the cooldown goes down by 1 per frame, whatever the keys, until 0.
C16_Cooldown == []C16_Range /\ [][C16_Step]_vars

\* With the action key held down the red robot's action has been invoked
\* in frame 1 and again in frame 16.
C16_Witness ==
    /\ Len(ActFrames("red")) = 2
    /\ ActFrames("red")[1] = 1
    /\ ActFrames("red")[2] = 1 + ActionCooldown
    /\ "KeyF" \in lastOp.input


\* Where the integration of the frame that reads input puts the robot,
\* before the clamp (line 107).
Integrated(id, input) ==
    LET r == StateAt(id, input).robots[id]
    IN VAdd(r.pos, RobotMove(r, input, id).vel)
\* v held within [robotHalfSize, size - robotHalfSize].
HalfClamp(v, size) ==
    IF v < RobotHalfSize * Unit THEN RobotHalfSize * Unit
    ELSE IF v > (size - RobotHalfSize) * Unit THEN (size - RobotHalfSize) * Unit
    ELSE v

C17_Step ==
    \A id \in RobotIds :
        lastOp'.op = "update" =>
            LET p == Integrated(id, lastOp'.input)
            IN robots'[id].pos = Vec(HalfClamp(p.x, FIELD_WIDTH), HalfClamp(p.y, FIELD_HEIGHT))

\* C17: the clamp of a frame leaves a coordinate that the integration has
\* put inside [robotHalfSize, size - robotHalfSize] unchanged, sets one
\* below robotHalfSize to robotHalfSize and sets one above
\* size - robotHalfSize to size - robotHalfSize, with robotHalfSize = 20.
C17_ClampAtHalfSize == [][C17_Step]_vars


Tally(team, kind, type) ==
    Cardinality({k \in 1..Len(scoreLog) :
                    /\ scoreLog[k].kind = kind
                    /\ scoreLog[k].team = team
                    /\ scoreLog[k].type = type})
Owed(team) ==
    PurplePoints * Tally(team, "score", "purple")
    + GreenPoints * Tally(team, "score", "green")
    + PatternBonus * Tally(team, "bonus", "none")

C20_State ==
    /\ \A i \in 1..Len(artifacts) :
          /\ Cardinality(ScoreEventsOf(i)) = IF artifacts[i].scored THEN 1 ELSE 0
          /\ \A k \in ScoreEventsOf(i) : scoreLog[k].type = artifacts[i].type
    /\ \A k \in 1..Len(scoreLog) :
          scoreLog[k].kind = "score" => scoreLog[k].idx \in 1..Len(artifacts)
    /\ redScore = Owed("red")
    /\ blueScore = Owed("blue")
    /\ redScore >= 0 /\ redScore % 5 = 0
    /\ blueScore >= 0 /\ blueScore % 5 = 0

C20_Step ==
    (running /\ running') => (redScore' >= redScore /\ blueScore' >= blueScore)

\* C20: since the last startGame every artifact has been scored at most
\* once, for one team, and each team's score is 5 for each purple and 10 for
\* each green artifact scored for it plus 20 for each of its pattern
\* bonuses; so the scores are non-negative multiples of 5 and do not go
\* down during a match.
C20_ScoreAccounting == []C20_State /\ [][C20_Step]_vars

\* Red has scored two purple artifacts and a green one and has been awarded
\* a pattern bonus for them.
C20_Witness ==
    /\ running
    /\ Tally("red", "score", "purple") = 2
    /\ Tally("red", "score", "green") = 1
    /\ Tally("red", "bonus", "none") = 1
    /\ redScore = 2 * PurplePoints + GreenPoints + PatternBonus

=============================================================================
